---- MODULE Spec2Model ----
(***************************************************************************)
(* CampusVibe: ticket issuance, payment review and attendance check-in of  *)
(* the better-sqlite3 server (src/unnamed/part_001).  Every route handler  *)
(* is one action; a handler that awaits the QR encoder is split at the     *)
(* await, the only place where another request can run in between.  The    *)
(* answer of a handler is an operator of the state it starts in and of its *)
(* request (RegisterOutcome, ProofOutcome, ReviewOutcome, ScanOutcome); the *)
(* handler's action branches on that same operator.                        *)
(***************************************************************************)
EXTENDS Integers, Sequences, FiniteSets, TLC

\* ---------------------------------------------------------------- bounds
MaxEvents == 1
MaxTickets == 1
MaxImported == 1
MaxInflight == 1
\* tickets and events of the issuance specification (SpecIssue)
MaxIssued == 2

\* ------------------------------------------------------- values and users
\* SQL NULL / JS null in an INTEGER column, and in a TEXT column.
NULL == -1
NULLT == "NULL"

\* users.id of the accounts that hold a session; user 1 is the seeded admin.
Users == {1, 2, 3}
RoleOf(u) == IF u = 1 THEN "admin" ELSE IF u = 2 THEN "committee" ELSE "student"

roleRequired(u, roles) == RoleOf(u) \in roles

\* JS truthiness of a nullable number: null and 0 are falsy.
Truthy(n) == n # NULL /\ n # 0

\* x ?? y
Coalesce(x, y) == IF x # NULL THEN x ELSE y

\* Hardcoded tier fallbacks of the register route.
FallbackSingle == 9000
FallbackDuo == 18000
FallbackTrio == 25000

TierNames == {"single", "duo", "trio"}

VARIABLES
    events,      \* table events: sequence indexed by id; uuid is modelled by the id
    discounts,   \* table discounts: set of rows
    tickets,     \* table tickets: sequence indexed by id; uuid is modelled by the id
    attendance,  \* table attendance: sequence of rows in insertion order
    inflight,    \* handlers suspended at `await QRCode.toDataURL(...)`
    flips,       \* history: per ticket, how often checked_in went 0 -> 1
    qrScans,     \* history: per ticket, how many 'qr' rows the scan route inserted
    dq,          \* inputs and result of the last stand-alone applyDiscount call
    lastError,   \* history: the answer to the last request that was refused
    waitlist     \* table waitlist: set of rows (event_id, user_id)

vars == <<events, discounts, tickets, attendance, inflight, flips, qrScans, dq, lastError,
          waitlist>>

\* --------------------------------------------------------------- signing
\* `${ticket_uuid}|${event_uuid}|${user_id}`: uuids and integers hold no '|',
\* so the joined string is determined by, and determines, the triple.
BaseString(t, e, u) == <<t, e, u>>

\* crypto.createHmac('sha256', QR_SIGNING_SECRET).update(base).digest('hex'):
\* an injective function of the base string under the one server secret.
HmacHex(base) == <<"hmac", base>>

\* A signature value no HMAC evaluation produces.
GarbageSig == <<"garbage">>

QrPayload(t, e, u) ==
    [ticket_uuid |-> t, event_uuid |-> e, user_id |-> u, sig |-> HmacHex(BaseString(t, e, u))]

\* tickets.qr_code IS NULL
NoQr == [ticket_uuid |-> NULL, event_uuid |-> NULL, user_id |-> NULL, sig |-> GarbageSig]

\* -------------------------------------------------------------- discounts
\* code.toUpperCase() on the codes the model sends.
ToUpperCase(c) == IF c = "save" THEN "SAVE" ELSE c

\* Rounding towards -infinity instead: what the price would be if the
\* percentage step floored.
MathFloor100(k) == k \div 100

\* Math.round(k / 100) for an integer k: round half up (towards +infinity).
MathRound100(k) == (k + 50) \div 100

Max(a, b) == IF a >= b THEN a ELSE b

\* A lookup by code alone, not scoped to the event.
DiscountRowsAnyEvent(ds, eventId, code) ==
    {d \in ds : d.code = ToUpperCase(code) /\ d.active = 1}

\* SELECT * FROM discounts WHERE event_id = ? AND code = ? AND active = 1
DiscountRows(ds, eventId, code) ==
    {d \in ds : d.event_id = eventId /\ d.code = ToUpperCase(code) /\ d.active = 1}

applyDiscount(ds, eventId, basePrice, code) ==
    IF code = NULLT \/ code = ""
    THEN [final |-> basePrice, code |-> NULLT]
    ELSE IF DiscountRows(ds, eventId, code) = {}
    THEN [final |-> basePrice, code |-> NULLT]
    ELSE LET d == CHOOSE x \in DiscountRows(ds, eventId, code) : TRUE
             f1 == IF Truthy(d.percentage)
                   THEN Max(0, MathRound100(basePrice * (100 - d.percentage)))
                   ELSE basePrice
             f2 == IF Truthy(d.amount_cents) THEN Max(0, f1 - d.amount_cents) ELSE f1
         IN [final |-> f2, code |-> d.code]

\* ---------------------------------------------------------------- events
EventExists(e) == e \in 1..Len(events) /\ events[e].live

\* SELECT COUNT(1) FROM tickets WHERE event_id = ?
TicketCount(e) == Cardinality({t \in 1..Len(tickets) : tickets[t].event_id = e})

\* ------------------------------------------------------------------ Init
NoDq == [ds |-> {}, event |-> NULL, base |-> 0, code |-> NULLT,
         final |-> 0, applied |-> NULLT, done |-> FALSE]

\* No request has been refused yet.
NoError == "none"

Init ==
    /\ events = <<>>
    /\ discounts = {}
    /\ tickets = <<>>
    /\ attendance = <<>>
    /\ inflight = {}
    /\ flips = <<>>
    /\ qrScans = <<>>
    /\ dq = NoDq
    /\ lastError = NoError
    /\ waitlist = {}

\* ============================================================== handlers

\* A request that is refused: nothing is written, the answer is remembered.
Refused(answer) ==
    /\ lastError' = answer
    /\ UNCHANGED <<events, discounts, tickets, attendance, inflight, flips, qrScans, dq, waitlist>>

\* An exception thrown out of a route handler instead of an answer.
Exceptions == {"TypeError", "SqliteError"}

\* Number(x) || fallback, for a number or an absent field.
NumberOr(x, fallback) == IF Truthy(x) THEN x ELSE fallback

\* POST /api/events with body `in`: capacity, price_cents, the three tier
\* prices (absent = NULL) and allowed_tiers (absent = empty).
CreateEvent(u, in) ==
    /\ roleRequired(u, {"committee", "admin"})
    /\ events' = Append(events,
          [created_by |-> u,
           capacity |-> NumberOr(in.capacity, NULL),
           price_cents |-> NumberOr(in.price_cents, 0),
           price_single_cents |-> in.price_single_cents,
           price_duo_cents |-> in.price_duo_cents,
           price_trio_cents |-> in.price_trio_cents,
           allowed_tiers |-> IF in.allowed_tiers = <<>> THEN <<"single">>
                             ELSE in.allowed_tiers,
           upi_id |-> NULLT,
           live |-> TRUE])
    /\ UNCHANGED <<discounts, tickets, attendance, inflight, flips, qrScans, dq, lastError, waitlist>>

\* PUT /api/events/:uuid; the body carries capacity only (NULL: not even
\* that), every other column is rewritten with its old value.
UpdateEvent(u, e, capacity) ==
    /\ roleRequired(u, {"committee", "admin"})
    /\ EventExists(e)
    /\ events' = [events EXCEPT ![e].capacity = Coalesce(capacity, events[e].capacity)]
    /\ UNCHANGED <<discounts, tickets, attendance, inflight, flips, qrScans, dq, lastError, waitlist>>

\* PUT /api/events/:uuid/payment-setup
PaymentSetup(u, e, upi) ==
    /\ roleRequired(u, {"committee", "admin"})
    /\ EventExists(e)
    /\ RoleOf(u) = "admin" \/ events[e].created_by = u
    /\ events' = [events EXCEPT ![e].upi_id = IF upi = "" THEN NULLT ELSE upi]
    /\ UNCHANGED <<discounts, tickets, attendance, inflight, flips, qrScans, dq, lastError, waitlist>>

\* POST /api/events/:uuid/discounts; discounts.code is UNIQUE over the table,
\* a duplicate makes the INSERT throw and nothing is stored.
CreateDiscount(u, e, in) ==
    /\ roleRequired(u, {"committee", "admin"})
    /\ EventExists(e)
    /\ in.code # ""
    /\ ~\E d \in discounts : d.code = ToUpperCase(in.code)
    /\ discounts' = discounts \cup
          {[code |-> ToUpperCase(in.code), event_id |-> e,
            percentage |-> NumberOr(in.percentage, NULL),
            amount_cents |-> NumberOr(in.amount_cents, NULL),
            max_uses |-> NumberOr(in.max_uses, NULL), used_count |-> 0, active |-> 1]}
    /\ UNCHANGED <<events, tickets, attendance, inflight, flips, qrScans, dq, lastError, waitlist>>

\* The answer of POST /api/events/:uuid/discounts; the INSERT throws when
\* the code is stored already, for whichever event.
DiscountOutcome(u, e, in) ==
    IF ~roleRequired(u, {"committee", "admin"}) THEN "Forbidden"
    ELSE IF ~EventExists(e) THEN "Event not found"
    ELSE IF in.code = "" THEN "code required"
    ELSE IF \E d \in discounts : d.code = ToUpperCase(in.code) THEN "SqliteError"
    ELSE "ok"

DiscountRefused(u, e, in) ==
    /\ DiscountOutcome(u, e, in) # "ok"
    /\ Refused(DiscountOutcome(u, e, in))

\* POST /api/events/:uuid/waitlist: one row per event and user.
JoinWaitlist(u, e) ==
    /\ EventExists(e)
    /\ waitlist' = waitlist \cup {[event_id |-> e, user_id |-> u]}
    /\ UNCHANGED <<events, discounts, tickets, attendance, inflight, flips, qrScans, dq,
                   lastError>>

\* The checks of PUT and DELETE /api/events/:uuid and of POST .../discounts
\* before they write: the role, then the event.
EventOutcome(u, e) ==
    IF ~roleRequired(u, {"committee", "admin"}) THEN "Forbidden"
    ELSE IF ~EventExists(e) THEN "Event not found"
    ELSE "ok"

\* The checks of PUT /api/events/:uuid/payment-setup.
PaymentSetupOutcome(u, e) ==
    IF EventOutcome(u, e) # "ok" THEN EventOutcome(u, e)
    ELSE IF RoleOf(u) # "admin" /\ events[e].created_by # u THEN "Forbidden"
    ELSE "ok"

\* Foreign keys that are not enforced.
EventReferencedNever(e) == FALSE

\* Rows that reference the event by foreign key.
EventReferenced(e) ==
    \/ \E t \in 1..Len(tickets) : tickets[t].event_id = e
    \/ \E d \in discounts : d.event_id = e
    \/ \E i \in 1..Len(attendance) : attendance[i].event_id = e
    \/ \E w \in waitlist : w.event_id = e

\* DELETE /api/events/:uuid; with a referencing row the DELETE throws.
DeleteEvent(u, e) ==
    /\ EventOutcome(u, e) = "ok"
    /\ IF EventReferenced(e)
       THEN Refused("SqliteError")
       ELSE /\ events' = [events EXCEPT ![e].live = FALSE]
            /\ UNCHANGED <<discounts, tickets, attendance, inflight, flips, qrScans, dq, lastError, waitlist>>

\* PUT, DELETE or POST .../discounts answered 403 or 404.
EventRefused(u, e) ==
    /\ EventOutcome(u, e) # "ok"
    /\ Refused(EventOutcome(u, e))

\* PUT .../payment-setup answered 403 or 404.
PaymentSetupRefused(u, e) ==
    /\ PaymentSetupOutcome(u, e) # "ok"
    /\ Refused(PaymentSetupOutcome(u, e))

\* ------------------------------------------------------------ IssueTicket
\* (e.allowed_tiers || 'single').split(',').map(trim, toLowerCase).filter(Boolean);
\* the column is modelled by its comma-separated items, trimmed and in lower
\* case; an item "" (as in ',' or ' ') is dropped by filter(Boolean).
AllowedTiers(ev) ==
    IF ev.allowed_tiers = <<>> THEN {"single"}
    ELSE {ev.allowed_tiers[i] : i \in 1..Len(ev.allowed_tiers)} \ {""}

\* The tier check of the register route: TRUE when the request is refused.
TierRefused(ev, groupType) ==
    \/ groupType = NULLT
    \/ groupType \notin TierNames
    \/ (AllowedTiers(ev) # {} /\ groupType \notin AllowedTiers(ev))

NeedCount(groupType) == IF groupType = "trio" THEN 3 ELSE IF groupType = "duo" THEN 2 ELSE 1

\* participants.slice(0, needCount), first slot from the profile when falsy,
\* padded with empty descriptors up to needCount.
ParticipantsArr(participants, needCount) ==
    [i \in 1..needCount |->
        IF i <= Len(participants)
        THEN (IF i = 1 /\ participants[i] = "null" THEN "profile" ELSE participants[i])
        ELSE (IF i = 1 THEN "profile" ELSE "empty")]

\* The hardcoded fallback ahead of the flat price, for every tier.
BasePriceFallbackFirst(ev, groupType) ==
    IF groupType = "trio" THEN Coalesce(ev.price_trio_cents, Coalesce(FallbackTrio, ev.price_cents))
    ELSE IF groupType = "duo" THEN Coalesce(ev.price_duo_cents, Coalesce(FallbackDuo, ev.price_cents))
    ELSE Coalesce(ev.price_single_cents, Coalesce(FallbackSingle, ev.price_cents))

\* const basePrice = groupType === 'trio' ? ... : groupType === 'duo' ? ... : ...
BasePrice(ev, groupType) ==
    IF groupType = "trio" THEN Coalesce(ev.price_trio_cents, FallbackTrio)
    ELSE IF groupType = "duo" THEN Coalesce(ev.price_duo_cents, FallbackDuo)
    ELSE Coalesce(ev.price_single_cents, Coalesce(ev.price_cents, FallbackSingle))

\* A register route without the capacity check.
EventFullNever(e) == FALSE

\* The capacity check of the register route: e.capacity && count >= e.capacity
EventFull(e) == Truthy(events[e].capacity) /\ TicketCount(e) >= events[e].capacity

\* The answer of the register route before it inserts: the error of the
\* first check that fails, or "created".
RegisterOutcome(e, ticket_type) ==
    IF ~EventExists(e) THEN "Event not found"
    ELSE IF EventFull(e) THEN "Event full. You may join waitlist."
    ELSE IF TierRefused(events[e], ticket_type) THEN "Invalid or disallowed ticket type"
    ELSE "created"

\* An issuer that marks every new ticket paid, whatever is due.
InitialStatusPaid(final) == "paid"

\* payment_status of a new ticket: final > 0 ? 'unpaid' : 'paid'
InitialStatus(final) == IF final > 0 THEN "unpaid" ELSE "paid"

NewTicket(u, e, groupType, participants, d) ==
    [user_id |-> u, event_id |-> e, qr_code |-> NoQr, checked_in |-> FALSE,
     discount_code |-> d.code, amount_due_cents |-> d.final, price_paid_cents |-> 0,
     payment_status |-> InitialStatus(d.final), group_type |-> groupType,
     participants |-> ParticipantsArr(participants, NeedCount(groupType)),
     proof_txn_id |-> NULLT, reviewed_by |-> NULL, rejection_reason |-> NULLT]

\* What the register route answers for a ticket it created: the payment
\* details of the event when money is due, else (after the await) the row.
RegisterResponse(u, e, id, final) ==
    IF final > 0
    THEN [requires_payment |-> TRUE, ticket_uuid |-> id, qr_code |-> NoQr,
          upi_id |-> IF events[e].upi_id = NULLT THEN "" ELSE events[e].upi_id]
    ELSE [requires_payment |-> FALSE, ticket_uuid |-> id, qr_code |-> QrPayload(id, e, u),
          upi_id |-> NULLT]

\* A handler suspended at its await: which route, for which ticket, on whose
\* request, and the payload it is encoding.
Suspended(op, t, u, qr) == [op |-> op, ticket |-> t, user |-> u, qr |-> qr]

\* POST /api/events/:uuid/register, up to `await QRCode.toDataURL` (free
\* ticket) or to the response (paid ticket).
Register(u, e, ticket_type, participants, discount_code, maxTickets) ==
    /\ RegisterOutcome(e, ticket_type) = "created"
    /\ Len(tickets) < maxTickets
    /\ LET d == applyDiscount(discounts, e, BasePrice(events[e], ticket_type), discount_code)
           id == Len(tickets) + 1
       IN /\ tickets' = Append(tickets, NewTicket(u, e, ticket_type, participants, d))
          /\ flips' = Append(flips, 0)
          /\ qrScans' = Append(qrScans, 0)
          /\ IF d.final > 0
             THEN UNCHANGED inflight
             ELSE /\ Cardinality(inflight) < MaxInflight
                  /\ inflight' = inflight \cup {Suspended("register", id, u, QrPayload(id, e, u))}
    /\ UNCHANGED <<events, discounts, attendance, dq, lastError, waitlist>>

\* ... the rest of the free-ticket branch: UPDATE tickets SET qr_code
RegisterFinish(c) ==
    /\ c \in inflight /\ c.op = "register"
    /\ inflight' = inflight \ {c}
    /\ tickets' = [tickets EXCEPT ![c.ticket].qr_code = c.qr]
    /\ UNCHANGED <<events, discounts, attendance, flips, qrScans, dq, lastError, waitlist>>

\* The register route answering 404, 409 or 400.
RegisterRefused(u, e, ticket_type) ==
    /\ RegisterOutcome(e, ticket_type) # "created"
    /\ Refused(RegisterOutcome(e, ticket_type))

\* ------------------------------------------------------ SubmitPaymentProof
\* A lookup of the ticket by uuid alone, not by uuid and user.
ProofOutcomeAnyUser(u, t, txn_id) ==
    IF t = NULL \/ txn_id = "" THEN "ticket_uuid and txn_id required"
    ELSE IF t \notin 1..Len(tickets) THEN "Ticket not found"
    ELSE "ok"

ProofOutcome(u, t, txn_id) ==
    IF t = NULL \/ txn_id = "" THEN "ticket_uuid and txn_id required"
    ELSE IF ~(t \in 1..Len(tickets) /\ tickets[t].user_id = u) THEN "Ticket not found"
    ELSE "ok"

\* POST /api/payments/proof
SubmitProof(u, t, txn_id) ==
    /\ ProofOutcome(u, t, txn_id) = "ok"
    /\ tickets' = [tickets EXCEPT ![t].proof_txn_id = txn_id,
                                  ![t].payment_status = "pending_proof"]
    /\ UNCHANGED <<events, discounts, attendance, inflight, flips, qrScans, dq, lastError, waitlist>>

\* POST /api/payments/proof answered 400 or 404.
ProofRefused(u, t, txn_id) ==
    /\ ProofOutcome(u, t, txn_id) # "ok"
    /\ Refused(ProofOutcome(u, t, txn_id))

\* ----------------------------------------------------------- ReviewPayment
\* approve and reject without the check of the event's creator.
ReviewOutcomeNoOwner(u, t) ==
    IF ~roleRequired(u, {"committee", "admin"}) THEN "Forbidden"
    ELSE IF t \notin 1..Len(tickets) THEN "Ticket not found"
    ELSE "ok"

\* The checks shared by approve and reject.
ReviewOutcome(u, t) ==
    IF ~roleRequired(u, {"committee", "admin"}) THEN "Forbidden"
    ELSE IF t \notin 1..Len(tickets) THEN "Ticket not found"
    ELSE IF RoleOf(u) # "admin" /\ events[tickets[t].event_id].created_by # u THEN "Forbidden"
    ELSE "ok"

\* POST /api/organizer/payments/:ticketUuid/approve, up to the await
Approve(u, t) ==
    /\ ReviewOutcome(u, t) = "ok"
    /\ Cardinality(inflight) < MaxInflight
    /\ inflight' = inflight \cup
          {Suspended("approve", t, u, QrPayload(t, tickets[t].event_id, tickets[t].user_id))}
    /\ UNCHANGED <<events, discounts, tickets, attendance, flips, qrScans, dq, lastError, waitlist>>

\* An approval that marks the ticket paid without recording the amount.
ApproveFinishNoAmount(c) ==
    /\ c \in inflight /\ c.op = "approve"
    /\ inflight' = inflight \ {c}
    /\ tickets' = [tickets EXCEPT
          ![c.ticket].payment_status = "paid",
          ![c.ticket].qr_code = c.qr,
          ![c.ticket].reviewed_by = c.user]
    /\ UNCHANGED <<events, discounts, attendance, flips, qrScans, dq, lastError, waitlist>>

\* ... the UPDATE after the await
ApproveFinish(c) ==
    /\ c \in inflight /\ c.op = "approve"
    /\ inflight' = inflight \ {c}
    /\ tickets' = [tickets EXCEPT
          ![c.ticket].payment_status = "paid",
          ![c.ticket].qr_code = c.qr,
          ![c.ticket].reviewed_by = c.user,
          ![c.ticket].price_paid_cents =
              Coalesce(tickets[c.ticket].amount_due_cents,
                       Coalesce(tickets[c.ticket].price_paid_cents, 0))]
    /\ UNCHANGED <<events, discounts, attendance, flips, qrScans, dq, lastError, waitlist>>

\* A rejection that also clears what the ticket costs.
RejectClearingAmount(u, t, reason) ==
    /\ ReviewOutcome(u, t) = "ok"
    /\ tickets' = [tickets EXCEPT
          ![t].payment_status = "rejected",
          ![t].rejection_reason = IF reason = "" THEN NULLT ELSE reason,
          ![t].reviewed_by = u,
          ![t].amount_due_cents = NULL]
    /\ UNCHANGED <<events, discounts, attendance, inflight, flips, qrScans, dq, lastError, waitlist>>

\* POST /api/organizer/payments/:ticketUuid/reject
Reject(u, t, reason) ==
    /\ ReviewOutcome(u, t) = "ok"
    /\ tickets' = [tickets EXCEPT
          ![t].payment_status = "rejected",
          ![t].rejection_reason = IF reason = "" THEN NULLT ELSE reason,
          ![t].reviewed_by = u]
    /\ UNCHANGED <<events, discounts, attendance, inflight, flips, qrScans, dq, lastError, waitlist>>

\* approve or reject answered 403 or 404.
ReviewRefused(u, t) ==
    /\ ReviewOutcome(u, t) # "ok"
    /\ Refused(ReviewOutcome(u, t))

\* ------------------------------------------------------------ ScanCheckIn
\* A scanned code: absent, text that JSON.parse refuses, the JSON text
\* `null` (payload.ticket_uuid then throws), or a JSON object.
ScanCode(kind, payload) == [kind |-> kind, payload |-> payload]

\* A verifier that accepts any signature.
SigValidAny(p) == TRUE

\* expected.length === sig.length && timingSafeEqual(expected, sig)
SigValid(p) == p.sig = HmacHex(BaseString(p.ticket_uuid, p.event_uuid, p.user_id))

\* The scan route without its `if (t.checked_in)` branch.
ScanOutcomeNoAlready(c) ==
    IF c.kind = "absent" THEN "code required"
    ELSE IF c.kind = "notjson" THEN "Invalid code"
    ELSE IF c.kind = "null" THEN "TypeError"
    ELSE LET p == c.payload IN
    IF ~Truthy(p.ticket_uuid) \/ ~Truthy(p.event_uuid) \/ ~Truthy(p.user_id) \/ p.sig = <<>>
    THEN "Invalid payload"
    ELSE IF p.sig # HmacHex(BaseString(p.ticket_uuid, p.event_uuid, p.user_id))
    THEN "Signature verification failed"
    ELSE IF p.ticket_uuid \notin 1..Len(tickets) THEN "Ticket not found"
    ELSE LET t == tickets[p.ticket_uuid] IN
    IF t.user_id # p.user_id THEN "Ticket-user mismatch"
    ELSE IF ~EventExists(t.event_id) \/ t.event_id # p.event_uuid THEN "Ticket-event mismatch"
    ELSE IF t.payment_status # "paid" THEN "Ticket not paid"
    ELSE "ok"

\* The scan route without its `payment_status !== 'paid'` check.
ScanOutcomeNoPaid(c) ==
    IF c.kind = "absent" THEN "code required"
    ELSE IF c.kind = "notjson" THEN "Invalid code"
    ELSE IF c.kind = "null" THEN "TypeError"
    ELSE LET p == c.payload IN
    IF ~Truthy(p.ticket_uuid) \/ ~Truthy(p.event_uuid) \/ ~Truthy(p.user_id) \/ p.sig = <<>>
    THEN "Invalid payload"
    ELSE IF p.sig # HmacHex(BaseString(p.ticket_uuid, p.event_uuid, p.user_id))
    THEN "Signature verification failed"
    ELSE IF p.ticket_uuid \notin 1..Len(tickets) THEN "Ticket not found"
    ELSE LET t == tickets[p.ticket_uuid] IN
    IF t.user_id # p.user_id THEN "Ticket-user mismatch"
    ELSE IF ~EventExists(t.event_id) \/ t.event_id # p.event_uuid THEN "Ticket-event mismatch"
    ELSE IF t.checked_in THEN "already"
    ELSE "ok"

\* The scan route without its `t.user_id !== payload.user_id` check.
ScanOutcomeNoUser(c) ==
    IF c.kind = "absent" THEN "code required"
    ELSE IF c.kind = "notjson" THEN "Invalid code"
    ELSE IF c.kind = "null" THEN "TypeError"
    ELSE LET p == c.payload IN
    IF ~Truthy(p.ticket_uuid) \/ ~Truthy(p.event_uuid) \/ ~Truthy(p.user_id) \/ p.sig = <<>>
    THEN "Invalid payload"
    ELSE IF p.sig # HmacHex(BaseString(p.ticket_uuid, p.event_uuid, p.user_id))
    THEN "Signature verification failed"
    ELSE IF p.ticket_uuid \notin 1..Len(tickets) THEN "Ticket not found"
    ELSE LET t == tickets[p.ticket_uuid] IN
    IF ~EventExists(t.event_id) \/ t.event_id # p.event_uuid THEN "Ticket-event mismatch"
    ELSE IF t.payment_status # "paid" THEN "Ticket not paid"
    ELSE IF t.checked_in THEN "already"
    ELSE "ok"

\* The answer of the scan route: the error of the first check that fails,
\* "already" for a ticket checked in before, "ok" for a check-in.
ScanOutcome(c) ==
    IF c.kind = "absent" THEN "code required"
    ELSE IF c.kind = "notjson" THEN "Invalid code"
    ELSE IF c.kind = "null" THEN "TypeError"
    ELSE LET p == c.payload IN
    IF ~Truthy(p.ticket_uuid) \/ ~Truthy(p.event_uuid) \/ ~Truthy(p.user_id) \/ p.sig = <<>>
    THEN "Invalid payload"
    ELSE IF ~SigValid(p) THEN "Signature verification failed"
    ELSE IF p.ticket_uuid \notin 1..Len(tickets) THEN "Ticket not found"
    ELSE LET t == tickets[p.ticket_uuid] IN
    IF t.user_id # p.user_id THEN "Ticket-user mismatch"
    ELSE IF ~EventExists(t.event_id) \/ t.event_id # p.event_uuid THEN "Ticket-event mismatch"
    ELSE IF t.payment_status # "paid" THEN "Ticket not paid"
    ELSE IF t.checked_in THEN "already"
    ELSE "ok"

\* The `details` row of the response: the ticket joined with its user and event.
Details(tks, t) == [uuid |-> t, user |-> tks[t].user_id, event |-> tks[t].event_id]

AttendanceRow(event_id, user_id, ticket_id, present, source) ==
    [event_id |-> event_id, user_id |-> user_id, ticket_id |-> ticket_id,
     present |-> present, source |-> source]

\* A scan route that logs the attendance but never sets checked_in.
ScanTicketsNoFlip(c) == tickets

\* The tables as the scan route leaves them.
ScanTickets(c) ==
    IF ScanOutcome(c) = "ok" THEN [tickets EXCEPT ![c.payload.ticket_uuid].checked_in = TRUE]
    ELSE tickets

\* A scan route that logs the repeated scan of a ticket as well.
ScanAttendanceAlways(c) ==
    IF ScanOutcome(c) \in {"ok", "already"}
    THEN Append(attendance,
                AttendanceRow(tickets[c.payload.ticket_uuid].event_id,
                              tickets[c.payload.ticket_uuid].user_id,
                              c.payload.ticket_uuid, 1, "qr"))
    ELSE attendance

ScanAttendance(c) ==
    IF ScanOutcome(c) = "ok"
    THEN Append(attendance,
                AttendanceRow(tickets[c.payload.ticket_uuid].event_id,
                              tickets[c.payload.ticket_uuid].user_id,
                              c.payload.ticket_uuid, 1, "qr"))
    ELSE attendance

\* POST /api/attendance/scan: one synchronous handler.
Scan(u, c) ==
    /\ roleRequired(u, {"committee", "admin"})
    /\ ScanOutcome(c) \in {"ok", "already"}
    /\ tickets' = ScanTickets(c)
    /\ attendance' = ScanAttendance(c)
    /\ IF ScanOutcome(c) = "ok"
       THEN /\ flips' = [flips EXCEPT ![c.payload.ticket_uuid] = @ + 1]
            /\ qrScans' = [qrScans EXCEPT ![c.payload.ticket_uuid] = @ + 1]
       ELSE UNCHANGED <<flips, qrScans>>
    /\ UNCHANGED <<events, discounts, inflight, dq, lastError, waitlist>>

\* The scan route answering 403, 400 or 404, or throwing.
ScanRefused(u, c) ==
    IF ~roleRequired(u, {"committee", "admin"}) THEN Refused("Forbidden")
    ELSE /\ ScanOutcome(c) \notin {"ok", "already"}
         /\ Refused(ScanOutcome(c))

\* --------------------------------------------------- manual check-in, import
\* The foreign keys of table attendance (PRAGMA foreign_keys = ON).
AttendanceFkOk(event_id, user_id, ticket_id) ==
    /\ EventExists(event_id)
    /\ user_id \in Users
    /\ ticket_id = NULL \/ ticket_id \in 1..Len(tickets)

\* Rows of attendance that the scan route did not insert.
RECURSIVE SumSeq(_)
SumSeq(q) == IF q = <<>> THEN 0 ELSE q[1] + SumSeq(Tail(q))

OtherRows == Len(attendance) - SumSeq(qrScans)

\* A manual check-in that also marks the user's tickets of the event.
ManualCheckInFlagging(u, event_id, user_id, present) ==
    /\ roleRequired(u, {"committee", "admin"})
    /\ Truthy(event_id) /\ Truthy(user_id)
    /\ AttendanceFkOk(event_id, user_id, NULL)
    /\ attendance' = Append(attendance,
          AttendanceRow(event_id, user_id, NULL, IF present THEN 1 ELSE 0, "manual"))
    /\ tickets' = [t \in 1..Len(tickets) |->
          IF tickets[t].event_id = event_id /\ tickets[t].user_id = user_id
          THEN [tickets[t] EXCEPT !.checked_in = TRUE] ELSE tickets[t]]
    /\ UNCHANGED <<events, discounts, inflight, flips, qrScans, dq, lastError, waitlist>>

\* POST /api/attendance/manual
ManualCheckIn(u, event_id, user_id, present) ==
    /\ roleRequired(u, {"committee", "admin"})
    /\ Truthy(event_id) /\ Truthy(user_id)
    /\ AttendanceFkOk(event_id, user_id, NULL)
    /\ attendance' = Append(attendance,
          AttendanceRow(event_id, user_id, NULL, IF present THEN 1 ELSE 0, "manual"))
    /\ UNCHANGED <<events, discounts, tickets, inflight, flips, qrScans, dq, lastError, waitlist>>

\* The answer of the manual route; the INSERT throws on a foreign key that
\* names no row.
ManualOutcome(u, event_id, user_id) ==
    IF ~roleRequired(u, {"committee", "admin"}) THEN "Forbidden"
    ELSE IF ~Truthy(event_id) \/ ~Truthy(user_id) THEN "event_id and user_id required"
    ELSE IF ~AttendanceFkOk(event_id, user_id, NULL) THEN "SqliteError"
    ELSE "ok"

ManualRefused(u, event_id, user_id) ==
    /\ ManualOutcome(u, event_id, user_id) # "ok"
    /\ Refused(ManualOutcome(u, event_id, user_id))

\* POST /api/attendance/:eventId/import with a one-row array r; its fields
\* ticket_id (0: absent) and source ("": absent) are taken from the body.
ImportAttendance(u, eventId, r) ==
    /\ roleRequired(u, {"committee", "admin"})
    /\ AttendanceFkOk(eventId, r.user_id, IF Truthy(r.ticket_id) THEN r.ticket_id ELSE NULL)
    /\ attendance' = Append(attendance,
          AttendanceRow(eventId, r.user_id,
                        IF Truthy(r.ticket_id) THEN r.ticket_id ELSE NULL,
                        IF r.present THEN 1 ELSE 0,
                        IF r.source = "" THEN "import" ELSE r.source))
    /\ UNCHANGED <<events, discounts, tickets, inflight, flips, qrScans, dq, lastError, waitlist>>

\* ============================================== requests the model sends
\* Bodies of POST /api/events.
EventBody(capacity, price_cents, single, duo, tiers) ==
    [capacity |-> capacity, price_cents |-> price_cents, price_single_cents |-> single,
     price_duo_cents |-> duo, price_trio_cents |-> NULL, allowed_tiers |-> tiers]

FreeEvent == EventBody(NULL, 0, NULL, NULL, <<>>)
\* single tickets cost 100, duo tickets are free
MixedEvent == EventBody(NULL, 100, NULL, 0, <<"single", "duo">>)

\* Bodies of POST /api/events/:uuid/discounts.
DiscountBody(code, percentage, amount_cents) ==
    [code |-> code, percentage |-> percentage, amount_cents |-> amount_cents, max_uses |-> NULL]

\* Codes the scanner posts: the payload of each ticket slot as the server
\* would sign it, the same with a forged signature, a payload naming another
\* user, no code and a code that is not JSON.
ScanStepCodes ==
    {ScanCode("object", QrPayload(t, e, 3)) : t \in 1..MaxTickets, e \in 1..MaxEvents}
    \cup {ScanCode("object", [QrPayload(t, e, 3) EXCEPT !.sig = GarbageSig]) :
             t \in 1..MaxTickets, e \in 1..MaxEvents}
    \cup {ScanCode("absent", NoQr), ScanCode("notjson", NoQr)}

\* Rows of an imported attendance array.
ImportRows ==
    {[user_id |-> 3, ticket_id |-> t, present |-> TRUE, source |-> "qr"] : t \in 1..MaxTickets}
    \cup {[user_id |-> 3, ticket_id |-> 0, present |-> TRUE, source |-> ""]}

\* ================================================== Spec: ticket lifecycle
\* An organizer (user 2) and the admin (user 1) run an event and review
\* payments, the organizer scans; a student (user 3) registers and submits
\* proofs.
Next ==
    \/ Len(events) < MaxEvents /\ CreateEvent(2, MixedEvent)
    \/ \E e \in 1..MaxEvents, ticket_type \in {"single", "duo"} :
          Register(3, e, ticket_type, <<>>, NULLT, MaxTickets)
    \/ \E c \in inflight : RegisterFinish(c)
    \/ \E t \in 1..MaxTickets : SubmitProof(3, t, "txn-1")
    \/ \E u \in {1, 2}, t \in 1..MaxTickets : Approve(u, t)
    \/ \E c \in inflight : ApproveFinish(c)
    \/ \E t \in 1..MaxTickets : Reject(2, t, "late")
    \/ \E c \in ScanStepCodes : Scan(2, c)

Spec == Init /\ [][Next]_vars

\* ============================================== SpecCheckIn: attendance log
\* The organizer scans tickets of free events, and keeps the attendance of
\* the first event by hand and by import, while tickets are issued, rejected
\* and approved again.
NextCheckIn ==
    \/ Len(events) < MaxEvents /\ CreateEvent(2, FreeEvent)
    \/ \E e \in 1..MaxEvents : Register(3, e, "single", <<>>, NULLT, MaxTickets)
    \/ \E c \in inflight : RegisterFinish(c)
    \/ \E t \in 1..MaxTickets : Approve(2, t)
    \/ \E c \in inflight : ApproveFinish(c)
    \/ \E t \in 1..MaxTickets : Reject(2, t, "")
    \/ \E c \in ScanStepCodes : Scan(2, c)
    \/ \E present \in BOOLEAN : OtherRows < MaxImported /\ ManualCheckIn(2, 1, 3, present)
    \/ \E r \in ImportRows : OtherRows < MaxImported /\ ImportAttendance(2, 1, r)

SpecCheckIn == Init /\ [][NextCheckIn]_vars

\* ============================================ SpecFailure: refused requests
\* The five ticket operations with requests that fail: an event that does
\* not exist or a tier it does not sell, a proof without transaction id or
\* by another user, a review by the student, codes that are absent, not
\* JSON, the JSON text null, wrongly signed or for a ticket not paid, and
\* manual check-ins without ids or with ids that name no row.
FailureCodes == ScanStepCodes \cup {ScanCode("null", NoQr)}

UnknownUser == Cardinality(Users) + 1

NextFailure ==
    \/ Len(events) < MaxEvents /\ CreateEvent(2, MixedEvent)
    \/ \E e \in 1..MaxEvents : Register(3, e, "single", <<>>, NULLT, MaxTickets)
    \/ \E e \in 1..MaxEvents, ticket_type \in {"single", "trio"} :
          RegisterRefused(3, e, ticket_type)
    \/ \E t \in 1..Len(tickets) : SubmitProof(3, t, "txn-1")
    \/ \E u \in {2, 3}, t \in 1..Len(tickets), txn_id \in {"", "txn-1"} :
          ProofRefused(u, t, txn_id)
    \/ \E t \in 1..Len(tickets) : Approve(2, t)
    \/ \E c \in inflight : ApproveFinish(c)
    \/ \E t \in 1..Len(tickets) : ReviewRefused(3, t)
    \/ \E c \in FailureCodes : Scan(2, c)
    \/ \E u \in {2, 3}, c \in FailureCodes : ScanRefused(u, c)
    \/ OtherRows < MaxImported /\ ManualCheckIn(2, 1, 3, TRUE)
    \/ \E u \in {2, 3}, event_id \in 0..(MaxEvents + 1), user_id \in {0, 3, UnknownUser} :
          ManualRefused(u, event_id, user_id)

SpecFailure == Init /\ [][NextFailure]_vars

\* ================================================= SpecIssue: registration
\* The organizer creates events with and without capacity and price, edits
\* the capacity, sets the payment details and defines a discount code; the
\* student registers with and without the code.
IssueEvents ==
    {EventBody(capacity, price_cents, NULL, NULL, <<>>) :
        capacity \in {NULL, 0, 1, 2}, price_cents \in {0, 100}}

CapacityEdits == {NULL, 0, 1}

NextIssue ==
    \/ \E in \in IssueEvents : Len(events) < MaxEvents /\ CreateEvent(2, in)
    \/ \E e \in 1..MaxEvents, capacity \in CapacityEdits : UpdateEvent(2, e, capacity)
    \/ \E e \in 1..MaxEvents : PaymentSetup(2, e, "org@upi")
    \/ \E e \in 1..MaxEvents : CreateDiscount(2, e, DiscountBody("save", 100, NULL))
    \/ \E e \in 1..MaxEvents, code \in {NULLT, "save"} :
          Register(3, e, "single", <<>>, code, MaxIssued)
    \/ \E c \in inflight : RegisterFinish(c)
    \/ \E e \in 1..MaxEvents : RegisterRefused(3, e, "single")

SpecIssue == Init /\ [][NextIssue]_vars

\* ============================================ SpecDiscount: applyDiscount
\* applyDiscount on its own: a discounts table of at most one row, a base
\* price and a code are drawn, then the function is applied once.
MaxBase == 30
MaxFlat == 2

BasePrices == 0..MaxBase \cup {FallbackSingle}
Percentages == {NULL, 0, 10, 50, 100, 150}
FlatAmounts == {NULL} \cup 0..MaxFlat \cup {9100}
CodesAsked == {NULLT, "", "save", "SAVE", "FAKE"}

DiscountTables ==
    {{}} \cup
    {{[code |-> "SAVE", event_id |-> e, percentage |-> p, amount_cents |-> a,
       max_uses |-> NULL, used_count |-> 0, active |-> act]} :
        e \in {1, 2}, p \in Percentages, a \in FlatAmounts, act \in {0, 1}}

InitDiscount ==
    /\ events = <<>>
    /\ discounts = {}
    /\ tickets = <<>>
    /\ attendance = <<>>
    /\ inflight = {}
    /\ flips = <<>>
    /\ qrScans = <<>>
    /\ lastError = NoError
    /\ waitlist = {}
    /\ \E ds \in DiscountTables, base \in BasePrices, code \in CodesAsked :
          dq = [NoDq EXCEPT !.ds = ds, !.event = 1, !.base = base, !.code = code]

\* const { final, code } = applyDiscount(e.id, basePrice, discount_code)
ApplyDiscount ==
    /\ ~dq.done
    /\ LET r == applyDiscount(dq.ds, dq.event, dq.base, dq.code)
       IN dq' = [dq EXCEPT !.final = r.final, !.applied = r.code, !.done = TRUE]
    /\ UNCHANGED <<events, discounts, tickets, attendance, inflight, flips, qrScans, lastError, waitlist>>

NextDiscount == ApplyDiscount

SpecDiscount == InitDiscount /\ [][NextDiscount]_vars

\* ==================================== SpecReview: who may review payments
\* The admin (user 1) and an organizer (user 2) each run one event; a
\* student (user 3) registers for priced tickets and submits proofs.  Both
\* organizers review tickets of either event, the organizer tries to submit
\* a proof for the student's ticket, and the student tries to review.
Organizers == {1, 2}

NoEventOf(u) == \A e \in 1..Len(events) : events[e].created_by # u

EventSlots == 1..Cardinality(Organizers)

NextReview ==
    \/ \E u \in Organizers : NoEventOf(u) /\ CreateEvent(u, MixedEvent)
    \/ \E e \in EventSlots : Register(3, e, "single", <<>>, NULLT, MaxTickets)
    \/ \E t \in 1..MaxTickets : SubmitProof(3, t, "txn-1")
    \/ \E t \in 1..MaxTickets : ProofRefused(2, t, "txn-1")
    \/ \E u \in Organizers, t \in 1..MaxTickets : Approve(u, t)
    \/ \E c \in inflight : ApproveFinish(c)
    \/ \E u \in Organizers, t \in 1..MaxTickets : Reject(u, t, "")
    \/ \E u \in {2, 3}, t \in 1..MaxTickets : ReviewRefused(u, t)

SpecReview == Init /\ [][NextReview]_vars

\* ========================================== SpecScan: who may check in
\* The same two events; the student holds free tickets.  Both organizers
\* scan, also tickets of the other's event, the student tries to scan, and
\* the scanner is shown payloads that name the wrong user, signed for that
\* user or carrying the ticket's own signature.
GuardCodes ==
    {ScanCode("object", QrPayload(t, e, u)) : t \in 1..MaxTickets, e \in EventSlots, u \in {2, 3}}
    \cup {ScanCode("object", [QrPayload(t, e, 3) EXCEPT !.user_id = 2]) :
             t \in 1..MaxTickets, e \in EventSlots}

NextScan ==
    \/ \E u \in Organizers : NoEventOf(u) /\ CreateEvent(u, MixedEvent)
    \/ \E e \in EventSlots : Register(3, e, "duo", <<>>, NULLT, MaxTickets)
    \/ \E c \in inflight : RegisterFinish(c)
    \/ \E u \in Organizers, c \in GuardCodes : Scan(u, c)
    \/ \E u \in {2, 3}, c \in GuardCodes : ScanRefused(u, c)

SpecScan == Init /\ [][NextScan]_vars

\* ======================================= SpecOwner: who may change an event
\* The admin and the organizer each run one event; they and the student
\* send updates, deletions, discount codes and payment details for either
\* event.
NextOwner ==
    \/ \E u \in Organizers : NoEventOf(u) /\ CreateEvent(u, MixedEvent)
    \/ \E u \in Organizers, e \in EventSlots, capacity \in CapacityEdits : UpdateEvent(u, e, capacity)
    \/ \E u \in Organizers, e \in EventSlots : DeleteEvent(u, e)
    \/ \E u \in Organizers, e \in EventSlots : CreateDiscount(u, e, DiscountBody("save", 100, NULL))
    \/ \E u \in Organizers, e \in EventSlots :
          DiscountRefused(u, e, DiscountBody("save", 100, NULL))
    \/ \E u \in Organizers, e \in EventSlots : PaymentSetup(u, e, "org@upi")
    \/ \E u \in Users, e \in EventSlots : EventRefused(u, e)
    \/ \E u \in Users, e \in EventSlots : PaymentSetupRefused(u, e)

SpecOwner == Init /\ [][NextOwner]_vars

\* ================================================ SpecTier: ticket tiers
\* The organizer creates an event whose allowed_tiers is absent, lists two
\* tiers, lists one, or is a string without any name (','); the student
\* asks for each tier, for a tier that does not exist and for none, with no
\* participants, a blank first one, and more than any tier takes.
TierLists == {<<>>, <<"single", "duo">>, <<"trio">>, <<"">>}

TierEvents ==
    {EventBody(NULL, price_cents, NULL, NULL, tiers) :
        price_cents \in {0, 100}, tiers \in TierLists}

TiersAsked == TierNames \cup {"vip", NULLT}

ParticipantLists == {<<>>, <<"null", "b">>, <<"a", "b", "c", "d">>}

NextTier ==
    \/ \E in \in TierEvents : Len(events) < MaxEvents /\ CreateEvent(2, in)
    \/ \E e \in 1..MaxEvents, ticket_type \in TierNames, participants \in ParticipantLists :
          Register(3, e, ticket_type, participants, NULLT, MaxTickets)
    \/ \E c \in inflight : RegisterFinish(c)
    \/ \E e \in 1..MaxEvents, ticket_type \in TiersAsked : RegisterRefused(3, e, ticket_type)

SpecTier == Init /\ [][NextTier]_vars

\* ================================================== SpecPrice: base price
\* The organizer creates an event with or without a flat price and with or
\* without a price for each tier (0 is a price); the student registers for
\* each tier without a discount code.
PriceEvents ==
    {[EventBody(NULL, price_cents, single, duo, <<"single", "duo", "trio">>)
         EXCEPT !.price_trio_cents = trio] :
        price_cents \in {NULL, 100}, single \in {NULL, 0, 50}, duo \in {NULL, 0},
        trio \in {NULL, 50}}

NextPrice ==
    \/ \E in \in PriceEvents : Len(events) < MaxEvents /\ CreateEvent(2, in)
    \/ \E e \in 1..MaxEvents, ticket_type \in TierNames :
          Register(3, e, ticket_type, <<>>, NULLT, MaxTickets)
    \/ \E c \in inflight : RegisterFinish(c)

SpecPrice == Init /\ [][NextPrice]_vars

\* ================= SpecKv: the @vercel/kv server (src/unnamed/part_000)
\* The same tables hold the keys of the store: events[e] is event:{uuid},
\* tickets[t] is ticket:{uuid}, attendance is the lists attendance:{uuid}
\* (each entry tagged with its list).  Every kv call is awaited; a handler
\* is split where another request can see or change what it works on.
MaxScans == 3

\* Requests of the scan route that can be under way at once.
KvRequests == {1, 2}

\* POST /api/events: kv.set(`event:${uuid}`, event)
KvCreateEvent(u) ==
    /\ roleRequired(u, {"committee", "admin"})
    /\ events' = Append(events, [created_by |-> u, live |-> TRUE])
    /\ UNCHANGED <<discounts, tickets, attendance, inflight, flips, qrScans, dq, lastError,
                   waitlist>>

\* POST /api/events/:uuid/register: the ticket is stored by kv.set after the
\* event was read and the payload encoded; it is stored as paid.
KvRegister(u, e, maxTickets) ==
    /\ EventExists(e)
    /\ Len(tickets) < maxTickets
    /\ tickets' = Append(tickets,
          [user_id |-> u, event_uuid |-> e, qr_code |-> QrPayload(Len(tickets) + 1, e, u),
           payment_status |-> "paid", checked_in |-> FALSE])
    /\ UNCHANGED <<events, discounts, attendance, inflight, flips, qrScans, dq, lastError,
                   waitlist>>

\* The scan route up to `await kv.get`: JSON.parse throws on a missing code
\* and on text that is not JSON, `payload.ticket_uuid` throws on null; then
\* the signature is compared.
KvScanOutcome(u, c) ==
    IF ~roleRequired(u, {"committee", "admin"}) THEN "Forbidden"
    ELSE IF c.kind \in {"absent", "notjson"} THEN "SyntaxError"
    ELSE IF c.kind = "null" THEN "TypeError"
    ELSE IF HmacHex(BaseString(c.payload.ticket_uuid, c.payload.event_uuid, c.payload.user_id))
               # c.payload.sig THEN "Invalid QR"
    ELSE IF c.payload.ticket_uuid \notin 1..Len(tickets) THEN "Ticket not found"
    ELSE "ok"

\* A scan suspended at an await: the request, the call it waits for, the
\* payload and the ticket object it read.
KvSuspended(req, call, payload, ticket) ==
    [req |-> req, call |-> call, payload |-> payload, ticket |-> ticket]

\* const ticket = await kv.get(`ticket:${payload.ticket_uuid}`)
KvScanGet(u, req, c) ==
    /\ KvScanOutcome(u, c) = "ok"
    /\ \A s \in inflight : s.req # req
    /\ inflight' = inflight \cup
          {KvSuspended(req, "set", c.payload, tickets[c.payload.ticket_uuid])}
    /\ UNCHANGED <<events, discounts, tickets, attendance, flips, qrScans, dq, lastError,
                   waitlist>>

\* ticket.checked_in = true; await kv.set(`ticket:${ticket.uuid}`, ticket)
KvScanSet(s) ==
    /\ s \in inflight /\ s.call = "set"
    /\ tickets' = [tickets EXCEPT ![s.payload.ticket_uuid] = [s.ticket EXCEPT !.checked_in = TRUE]]
    /\ inflight' = (inflight \ {s}) \cup {[s EXCEPT !.call = "rpush"]}
    /\ UNCHANGED <<events, discounts, attendance, flips, qrScans, dq, lastError, waitlist>>

\* await kv.rpush(`attendance:${payload.event_uuid}`, {...}); res.json({ ok: true })
KvScanPush(s) ==
    /\ s \in inflight /\ s.call = "rpush"
    /\ attendance' = Append(attendance,
          [list |-> s.payload.event_uuid, ticket_uuid |-> s.payload.ticket_uuid,
           user_id |-> s.ticket.user_id])
    /\ inflight' = inflight \ {s}
    /\ UNCHANGED <<events, discounts, tickets, flips, qrScans, dq, lastError, waitlist>>

\* The scan route answering 403, 400 or 404, or throwing.
KvScanRefused(u, c) ==
    /\ KvScanOutcome(u, c) # "ok"
    /\ Refused(KvScanOutcome(u, c))

\* Codes shown to the scanner: the payload of each ticket as issued, the
\* same with a forged signature, and text that is not JSON.
KvCodes ==
    {ScanCode("object", QrPayload(t, e, 3)) : t \in 1..MaxTickets, e \in 1..MaxEvents}
    \cup {ScanCode("object", [QrPayload(t, e, 3) EXCEPT !.sig = GarbageSig]) :
             t \in 1..MaxTickets, e \in 1..MaxEvents}
    \cup {ScanCode("notjson", NoQr)}

\* Entries of the attendance lists plus scans that have not pushed yet.
KvScans == Len(attendance) + Cardinality(inflight)

NextKv ==
    \/ \E u \in Organizers : Len(events) < MaxEvents /\ KvCreateEvent(u)
    \/ \E e \in 1..MaxEvents : KvRegister(3, e, MaxTickets)
    \/ \E u \in Organizers, req \in KvRequests, c \in KvCodes :
          KvScans < MaxScans /\ KvScanGet(u, req, c)
    \/ \E s \in inflight : KvScanSet(s)
    \/ \E s \in inflight : KvScanPush(s)
    \/ \E u \in {2, 3}, c \in KvCodes : KvScanRefused(u, c)

SpecKv == Init /\ [][NextKv]_vars

\* ================= SpecServerJs: the sqlite3 server (src/server.js)
\* node-sqlite3 runs each statement on its own and calls back later, so a
\* handler is one action per statement; between two statements of a request
\* the statements of other requests can run.  The schema is that of the
\* better-sqlite3 server; a deleted ticket row leaves its id behind.
SjsSuspended(op, u, e, participants) ==
    [op |-> op, user |-> u, event |-> e, participants |-> participants]

\* POST /api/events (authRequired only): INSERT ... capacity || null
SjsCreateEvent(u, capacity) ==
    /\ events' = Append(events,
          [created_by |-> u, capacity |-> NumberOr(capacity, NULL), price_cents |-> 0,
           live |-> TRUE])
    /\ UNCHANGED <<discounts, tickets, attendance, inflight, flips, qrScans, dq, lastError,
                   waitlist>>

\* GET /api/events/:uuid: event.remaining
SjsRemaining(e) ==
    IF Truthy(events[e].capacity) THEN Max(0, events[e].capacity - TicketCount(e)) ELSE NULL

\* The register route up to the callback of its SELECT.
SjsRegisterOutcome(e, participants) ==
    IF participants = <<>> THEN "Participants required"
    ELSE IF ~EventExists(e) THEN "Event not found"
    ELSE "ok"

\* POST /api/events/:uuid/register: db.get('SELECT id FROM events WHERE uuid = ?')
SjsRegisterSelect(u, e, participants, maxPending) ==
    /\ SjsRegisterOutcome(e, participants) = "ok"
    /\ Cardinality(inflight) < maxPending
    /\ SjsSuspended("insert", u, e, participants) \notin inflight
    /\ inflight' = inflight \cup {SjsSuspended("insert", u, e, participants)}
    /\ UNCHANGED <<events, discounts, tickets, attendance, flips, qrScans, dq, lastError,
                   waitlist>>

SjsRegisterRefused(e, participants) ==
    /\ SjsRegisterOutcome(e, participants) # "ok"
    /\ Refused(SjsRegisterOutcome(e, participants))

\* ... db.run('INSERT INTO tickets (..., payment_status) VALUES (..., 'paid')');
\* the foreign key fails when the event was deleted meanwhile.
SjsRegisterInsert(s, maxTickets) ==
    /\ s \in inflight /\ s.op = "insert"
    /\ Len(tickets) < maxTickets
    /\ inflight' = inflight \ {s}
    /\ IF EventExists(s.event)
       THEN /\ tickets' = Append(tickets,
                  [user_id |-> s.user, event_id |-> s.event, qr_code |-> NoQr,
                   checked_in |-> FALSE, payment_status |-> "paid",
                   participants |-> s.participants, price_paid_cents |-> 0,
                   amount_due_cents |-> NULL])
            /\ UNCHANGED lastError
       ELSE /\ lastError' = "Registration failed"
            /\ UNCHANGED tickets
    /\ UNCHANGED <<events, discounts, attendance, flips, qrScans, dq, waitlist>>

\* The delete route up to the callback of its SELECT.
SjsDeleteOutcome(u, e) ==
    IF ~EventExists(e) THEN "Event not found"
    ELSE IF RoleOf(u) # "admin" /\ events[e].created_by # u
    THEN "Not authorized to delete this event"
    ELSE "ok"

\* DELETE /api/events/:uuid: db.get('SELECT e.id, e.created_by ...')
SjsDeleteSelect(u, e, maxPending) ==
    /\ SjsDeleteOutcome(u, e) = "ok"
    /\ Cardinality(inflight) < maxPending
    /\ \A s \in inflight : s.op = "insert"
    /\ inflight' = inflight \cup {SjsSuspended("delete-tickets", u, e, <<>>)}
    /\ UNCHANGED <<events, discounts, tickets, attendance, flips, qrScans, dq, lastError,
                   waitlist>>

SjsDeleteRefused(u, e) ==
    /\ SjsDeleteOutcome(u, e) # "ok"
    /\ Refused(SjsDeleteOutcome(u, e))

\* ... db.run('DELETE FROM tickets WHERE event_id = ?')
SjsDeleteTickets(s) ==
    /\ s \in inflight /\ s.op = "delete-tickets"
    /\ tickets' = [t \in 1..Len(tickets) |->
          IF tickets[t].event_id = s.event
          THEN [tickets[t] EXCEPT !.event_id = NULL, !.user_id = NULL,
                                  !.payment_status = "deleted"]
          ELSE tickets[t]]
    /\ inflight' = (inflight \ {s}) \cup {[s EXCEPT !.op = "delete-event"]}
    /\ UNCHANGED <<events, discounts, attendance, flips, qrScans, dq, lastError, waitlist>>

\* ... db.run('DELETE FROM events WHERE id = ?'); a ticket inserted since the
\* tickets were deleted makes the foreign key fail.
SjsDeleteEvent(s) ==
    /\ s \in inflight /\ s.op = "delete-event"
    /\ inflight' = inflight \ {s}
    /\ IF TicketCount(s.event) > 0
       THEN /\ lastError' = "Failed to delete event"
            /\ UNCHANGED events
       ELSE /\ events' = [events EXCEPT ![s.event].live = FALSE]
            /\ UNCHANGED lastError
    /\ UNCHANGED <<discounts, tickets, attendance, flips, qrScans, dq, waitlist>>

NextServerJs ==
    \/ \E u \in {2, 3}, capacity \in {NULL, 0, 1} :
          Len(events) < MaxEvents /\ SjsCreateEvent(u, capacity)
    \/ \E u \in {2, 3}, e \in 1..MaxEvents : SjsRegisterSelect(u, e, <<"a">>, MaxIssued)
    \/ \E e \in 1..MaxEvents, participants \in {<<>>, <<"a">>} :
          SjsRegisterRefused(e, participants)
    \/ \E s \in inflight : SjsRegisterInsert(s, MaxIssued)
    \/ \E u \in Users, e \in 1..MaxEvents : SjsDeleteSelect(u, e, MaxIssued)
    \/ \E u \in Users, e \in 1..MaxEvents : SjsDeleteRefused(u, e)
    \/ \E s \in inflight : SjsDeleteTickets(s)
    \/ \E s \in inflight : SjsDeleteEvent(s)

SpecServerJs == Init /\ [][NextServerJs]_vars

\* ============================= SpecIntegrity: rows that refer to an event
\* The admin and the organizer each run one free event and delete either
\* event; a student registers and joins waitlists, the organizer creates a
\* discount code and keeps attendance by hand.
NextIntegrity ==
    \/ \E u \in Organizers : NoEventOf(u) /\ CreateEvent(u, FreeEvent)
    \/ \E e \in EventSlots : Register(3, e, "single", <<>>, NULLT, MaxTickets)
    \/ \E c \in inflight : RegisterFinish(c)
    \/ \E e \in EventSlots : JoinWaitlist(3, e)
    \/ \E e \in EventSlots : CreateDiscount(2, e, DiscountBody("save", 100, NULL))
    \/ \E e \in EventSlots : Len(attendance) < MaxImported /\ ManualCheckIn(2, e, 3, TRUE)
    \/ \E u \in Organizers, e \in EventSlots : DeleteEvent(u, e)

SpecIntegrity == Init /\ [][NextIntegrity]_vars

\* ============================================================= properties
TicketIds == 1..Len(tickets)

\* Rows of the attendance log with source 'qr' that name ticket t.
QrRows(t) == {i \in 1..Len(attendance) : attendance[i].source = "qr" /\ attendance[i].ticket_id = t}

\* C1 (as the code has it): a ticket's checked_in flag goes from false to
\* true at most once, and the scan route itself inserts at most one 'qr'
\* attendance row per ticket, whatever else runs in between.
C1_ScanOncePerTicket ==
    \A t \in TicketIds : flips[t] <= 1 /\ qrScans[t] <= 1

\* A ticket scanned once and found checked in afterwards, with one further
\* row in the log.
C1_Witness ==
    \E t \in TicketIds :
        /\ tickets[t].checked_in /\ flips[t] = 1 /\ qrScans[t] = 1
        /\ ScanOutcome(ScanCode("object", tickets[t].qr_code)) = "already"
        /\ Len(attendance) = 2

\* C1 as stated: the flag flips at most once and the attendance log holds
\* at most one row with source 'qr' for the ticket.
C1_AtMostOneQrRow ==
    \A t \in TicketIds : flips[t] <= 1 /\ Cardinality(QrRows(t)) <= 1

\* The payloads the server has produced for ticket t: the stored one and
\* those of handlers still encoding.
ProducedPayloads(t) ==
    {tickets[t].qr_code : x \in {1}} \cup {c.qr : c \in {d \in inflight : d.ticket = t}}

SigValues ==
    {HmacHex(BaseString(t, e, u)) : t \in 1..MaxTickets + 1, e \in 1..MaxEvents + 1, u \in Users}
    \cup {GarbageSig, <<>>}

\* The payloads that differ from q in exactly one field.
OneFieldVariants(q) ==
    {[q EXCEPT !.ticket_uuid = x] : x \in (0..MaxTickets + 1) \ {q.ticket_uuid}}
    \cup {[q EXCEPT !.event_uuid = x] : x \in (0..MaxEvents + 1) \ {q.event_uuid}}
    \cup {[q EXCEPT !.user_id = x] : x \in ({0} \cup Users) \ {q.user_id}}
    \cup {[q EXCEPT !.sig = x] : x \in SigValues \ {q.sig}}

Accepted(p) == ScanOutcome(ScanCode("object", p)) \in {"ok", "already"}

\* C3: for every paid ticket, each payload produced for it at free issuance
\* or at approval is accepted by the scan route, and every payload that
\* differs from it in exactly one of ticket_uuid, event_uuid, user_id, sig
\* is refused.
C3_SignatureRoundTrip ==
    \A t \in TicketIds :
        tickets[t].payment_status = "paid" =>
            \A q \in ProducedPayloads(t) \ {NoQr} :
                /\ Accepted(q)
                /\ \A p \in OneFieldVariants(q) : ~Accepted(p)

\* A ticket that was approved: paid, with the payload of the approval stored.
C3_Witness ==
    \E t \in TicketIds :
        /\ tickets[t].payment_status = "paid"
        /\ tickets[t].reviewed_by # NULL
        /\ tickets[t].qr_code = QrPayload(t, tickets[t].event_id, tickets[t].user_id)
        /\ ScanOutcome(ScanCode("object", tickets[t].qr_code)) = "ok"

StatusMoves ==
    {<<"unpaid", "pending_proof">>, <<"pending_proof", "paid">>,
     <<"pending_proof", "rejected">>, <<"rejected", "paid">>}

\* C4 as stated: in every step, a ticket's payment_status stays as it is or
\* moves along unpaid -> pending_proof, pending_proof -> paid,
\* pending_proof -> rejected or rejected -> paid.
C4_OnlyListedMoves ==
    [][\A t \in TicketIds :
          \/ tickets'[t].payment_status = tickets[t].payment_status
          \/ <<tickets[t].payment_status, tickets'[t].payment_status>> \in StatusMoves]_vars

\* C5: checked_in goes from false to true only in a step that starts with
\* the ticket paid, and never goes from true to false.
C5_CheckInOnlyWhenPaid ==
    [][\A t \in TicketIds :
          /\ tickets[t].checked_in => tickets'[t].checked_in
          /\ (~tickets[t].checked_in /\ tickets'[t].checked_in)
                => tickets[t].payment_status = "paid"]_vars

\* A ticket that was rejected, approved again and then checked in.
C5_Witness ==
    \E t \in TicketIds :
        /\ tickets[t].checked_in /\ flips[t] = 1
        /\ tickets[t].payment_status = "paid"
        /\ tickets[t].rejection_reason = "late"

C2_WithinCapacity ==
    \A e \in 1..Len(events) :
        (events[e].capacity # NULL /\ events[e].capacity > 0)
            => TicketCount(e) <= events[e].capacity

\* The ticket a register step has just inserted.
Inserted == tickets'[Len(tickets')]

\* C6: a register step creates the ticket paid, with the signing step
\* started on the payload of that ticket, exactly when the resolved amount
\* due is 0; when the amount due is positive it creates the ticket unpaid,
\* with no QR payload and no signing step, and answers with the event's
\* payment details; the signing step stores a payload the scan route's
\* signature check accepts.
C6_PaidIffNothingDue ==
    /\ [][Len(tickets') = Len(tickets) + 1 =>
            LET id == Len(tickets')
                e == Inserted.event_id
                started == inflight' \ inflight
                answer == RegisterResponse(Inserted.user_id, e, id, Inserted.amount_due_cents)
            IN /\ Inserted.amount_due_cents >= 0
               /\ (Inserted.payment_status = "paid") <=> (Inserted.amount_due_cents = 0)
               /\ Inserted.amount_due_cents = 0 =>
                     /\ started = {Suspended("register", id, Inserted.user_id,
                                             QrPayload(id, e, Inserted.user_id))}
                     /\ ~answer.requires_payment /\ SigValid(answer.qr_code)
               /\ Inserted.amount_due_cents > 0 =>
                     /\ Inserted.payment_status = "unpaid"
                     /\ Inserted.qr_code = NoQr
                     /\ started = {}
                     /\ answer.requires_payment /\ answer.qr_code = NoQr
                     /\ answer.upi_id = (IF events[e].upi_id = NULLT THEN "" ELSE events[e].upi_id)]_vars
    /\ [][\A c \in inflight :
            RegisterFinish(c) =>
                /\ tickets'[c.ticket].qr_code = QrPayload(c.ticket, tickets[c.ticket].event_id,
                                                          tickets[c.ticket].user_id)
                /\ SigValid(tickets'[c.ticket].qr_code)]_vars

\* A free ticket, paid and signed, next to a ticket with money due, unpaid
\* and without QR, of an event whose payment details are set.
C6_Witness ==
    \E t1, t2 \in TicketIds :
        /\ tickets[t1].amount_due_cents = 0 /\ tickets[t1].payment_status = "paid"
        /\ tickets[t1].qr_code = QrPayload(t1, tickets[t1].event_id, tickets[t1].user_id)
        /\ tickets[t2].amount_due_cents > 0 /\ tickets[t2].payment_status = "unpaid"
        /\ tickets[t2].qr_code = NoQr
        /\ events[tickets[t2].event_id].upi_id = "org@upi"

\* C7 as stated: registration is refused as full exactly when the event's
\* capacity is set and the count of its ticket rows has reached it.
C7_FullExactlyAtCapacity ==
    \A e \in 1..Len(events) :
        (RegisterOutcome(e, "single") = "Event full. You may join waitlist.")
            <=> (events[e].capacity # NULL /\ TicketCount(e) >= events[e].capacity)

\* The discount row that a finished applyDiscount call resolved, if any.
Resolved == {d \in dq.ds : d.event_id = dq.event /\ d.active = 1
                           /\ d.code = dq.applied /\ dq.code \notin {NULLT, ""}}

OrZero(x) == IF x = NULL THEN 0 ELSE x

\* C8 (as the code has it): for a resolved active discount with percentage
\* p and flat amount a, the result is max(0, round(base * (100 - p) / 100)
\* - a), the percentage step rounding half up to an integer.
C8_RoundedThenFlat ==
    dq.done =>
        \A d \in Resolved :
            dq.final = Max(0, ((dq.base * (100 - OrZero(d.percentage)) + 50) \div 100)
                              - OrZero(d.amount_cents))

\* Base 25 with 10 percent off: 22.5 becomes 23.
C8_Witness ==
    /\ dq.done /\ dq.base = 25 /\ dq.final = 23
    /\ \E d \in Resolved : d.percentage = 10 /\ d.amount_cents = NULL

\* C8 as stated: the percentage step floors.
C8_FlooredThenFlat ==
    dq.done =>
        \A d \in Resolved :
            dq.final = Max(0, ((dq.base * (100 - OrZero(d.percentage))) \div 100)
                              - OrZero(d.amount_cents))

\* The active rows of the table for the event asked and the code asked, by
\* the code as stored (upper case).
Matching ==
    {d \in dq.ds : d.event_id = dq.event /\ d.active = 1
                   /\ dq.code \in {"save", "SAVE"} /\ d.code = "SAVE"}

\* C9: applyDiscount gives back the base price and no code when the code is
\* absent, inactive or not defined for the event; with a resolved discount a
\* percentage of 0 leaves the price to the flat amount alone, a percentage
\* of 100 gives 0, and the result is never negative.
C9_UnknownCodeKeepsPrice ==
    dq.done =>
        /\ Matching = {} => (dq.final = dq.base /\ dq.applied = NULLT)
        /\ \A d \in Matching :
              /\ dq.applied = "SAVE"
              /\ d.percentage = 0 => dq.final = Max(0, dq.base - OrZero(d.amount_cents))
              /\ d.percentage = 100 => dq.final = 0
        /\ dq.final >= 0

\* The code exists, active, but for another event: price 9000 stays 9000.
C9_Witness ==
    /\ dq.done /\ dq.code = "save" /\ dq.base = FallbackSingle
    /\ \E d \in dq.ds : d.event_id # dq.event /\ d.active = 1 /\ d.percentage = 100
    /\ dq.final = FallbackSingle /\ dq.applied = NULLT

\* The scanned payloads that name an existing ticket and a user who is not
\* its owner.
WrongUserCodes ==
    {c \in GuardCodes : /\ c.payload.ticket_uuid \in TicketIds
                        /\ c.payload.user_id # tickets[c.payload.ticket_uuid].user_id}

\* C11 (as the code has it): a scan whose payload names an existing ticket
\* and another user than its owner is refused and changes neither the
\* tickets nor the attendance log; the answer is the ticket-user mismatch
\* when the payload's signature is valid for the payload itself, and the
\* signature failure otherwise.
C11_WrongUserRefused ==
    \A c \in WrongUserCodes :
        /\ ScanOutcome(c) \in {"Ticket-user mismatch", "Signature verification failed"}
        /\ (ScanOutcome(c) = "Ticket-user mismatch") <=> SigValid(c.payload)
        /\ ScanTickets(c) = tickets
        /\ ScanAttendance(c) = attendance

\* A paid ticket, not checked in, after a scan was answered with the
\* ticket-user mismatch.
C11_Witness ==
    /\ lastError = "Ticket-user mismatch"
    /\ \E t \in TicketIds :
          /\ tickets[t].payment_status = "paid" /\ ~tickets[t].checked_in
          /\ tickets[t].qr_code # NoQr
          /\ attendance = <<>>

\* C11 as stated: every such scan is answered with the mismatch error.
C11_AlwaysMismatchError ==
    \A c \in WrongUserCodes : ScanOutcome(c) = "Ticket-user mismatch"

\* The reviewer is the creator of the ticket's event or an admin.
MayReview(u, t) == RoleOf(u) = "admin" \/ events[tickets[t].event_id].created_by = u

\* C12: approve and reject change a ticket only on a request of the creator
\* of the ticket's event or of an admin; for every other user the request
\* is answered Forbidden and no ticket changes.
C12_ReviewByOwnerOrAdmin ==
    /\ [](\A t \in TicketIds :
            /\ tickets[t].reviewed_by # NULL => MayReview(tickets[t].reviewed_by, t)
            /\ \A u \in Users : ~MayReview(u, t) => ReviewOutcome(u, t) = "Forbidden")
    /\ [][\A t \in TicketIds, u \in Users :
            /\ (Approve(u, t) \/ Reject(u, t, "")) => MayReview(u, t)
            /\ ReviewRefused(u, t) => tickets' = tickets]_vars
    /\ [][\A c \in inflight : ApproveFinish(c) => MayReview(c.user, c.ticket)]_vars

\* A ticket of the organizer's event reviewed by the admin, after a request
\* to review was answered Forbidden.
C12_Witness ==
    /\ lastError = "Forbidden"
    /\ \E t \in TicketIds :
          /\ events[tickets[t].event_id].created_by = 2
          /\ tickets[t].reviewed_by = 1
          /\ tickets[t].payment_status = "paid"

\* C13 as stated: a scan checks a ticket in only when the scanning user is
\* the creator of the ticket's event or an admin.
C13_ScanByOwnerOrAdmin ==
    [][\A u \in Organizers, c \in GuardCodes :
          (ScanOutcome(c) = "ok" /\ Scan(u, c)) => MayReview(u, c.payload.ticket_uuid)]_vars

\* C15: a proof is accepted only from the ticket's owner, sets that
\* ticket to pending_proof, stores the transaction reference and leaves the
\* other tickets as they are; for any other user the request is answered
\* ticket-not-found and no ticket changes.
C15_ProofByOwnerOnly ==
    /\ [](\A t \in TicketIds, u \in Users :
            u # tickets[t].user_id => ProofOutcome(u, t, "txn-1") = "Ticket not found")
    /\ [][\A t \in TicketIds, u \in Users :
            /\ SubmitProof(u, t, "txn-1") =>
                  /\ u = tickets[t].user_id
                  /\ tickets'[t].payment_status = "pending_proof"
                  /\ tickets'[t].proof_txn_id = "txn-1"
                  /\ \A o \in TicketIds \ {t} : tickets'[o] = tickets[o]
            /\ ProofRefused(u, t, "txn-1") => tickets' = tickets]_vars

\* The owner's proof is stored, after another user's proof for the ticket
\* was answered ticket-not-found.
C15_Witness ==
    /\ lastError = "Ticket not found"
    /\ \E t \in TicketIds :
          /\ tickets[t].payment_status = "pending_proof"
          /\ tickets[t].proof_txn_id = "txn-1"

\* The user is the creator of the event or an admin.
MayManage(u, e) == RoleOf(u) = "admin" \/ events[e].created_by = u

\* C14 as stated: an update, a deletion, a new discount code or a change of
\* the payment details requested by a user who is neither the event's
\* creator nor an admin leaves the events and the discounts unchanged.
C14_MutationByOwnerOrAdmin ==
    [][\A u \in Users, e \in 1..Len(events) :
          (/\ ~MayManage(u, e)
           /\ \/ \E capacity \in CapacityEdits : UpdateEvent(u, e, capacity)
              \/ DeleteEvent(u, e)
              \/ CreateDiscount(u, e, DiscountBody("save", 100, NULL))
              \/ PaymentSetup(u, e, "org@upi"))
          => UNCHANGED <<events, discounts>>]_vars

\* C16: a manual check-in with event_id and user_id given by a committee or
\* admin user appends exactly one attendance row, with source 'manual' and
\* no ticket_id, and leaves every ticket as it is.
C16_ManualAppendsOneRow ==
    [][\A u \in Users, e \in 1..Len(events), v \in Users, present \in BOOLEAN :
          ManualCheckIn(u, e, v, present) =>
              /\ RoleOf(u) \in {"committee", "admin"}
              /\ Len(attendance') = Len(attendance) + 1
              /\ \A i \in 1..Len(attendance) : attendance'[i] = attendance[i]
              /\ attendance'[Len(attendance')].source = "manual"
              /\ attendance'[Len(attendance')].ticket_id = NULL
              /\ attendance'[Len(attendance')].event_id = e
              /\ attendance'[Len(attendance')].user_id = v
              /\ attendance'[Len(attendance')].present = (IF present THEN 1 ELSE 0)
              /\ tickets' = tickets]_vars

\* A manual row for the student, whose paid ticket of the event is still not
\* checked in.
C16_Witness ==
    /\ \E i \in 1..Len(attendance) :
          /\ attendance[i].source = "manual" /\ attendance[i].ticket_id = NULL
          /\ \E t \in TicketIds :
                /\ tickets[t].event_id = attendance[i].event_id
                /\ tickets[t].user_id = attendance[i].user_id
                /\ tickets[t].payment_status = "paid"
                /\ ~tickets[t].checked_in

\* C17: the approval's UPDATE makes the ticket paid, records the reviewer,
\* sets price_paid_cents to amount_due_cents and stores the payload signed
\* for the ticket; on a ticket that is paid already it leaves the status,
\* price_paid_cents and a stored payload as they are, and a rejected ticket
\* becomes paid.
C17_ApproveIdempotent ==
    /\ [][\A c \in inflight :
            ApproveFinish(c) =>
                LET old == tickets[c.ticket]
                    new == tickets'[c.ticket]
                IN /\ new.payment_status = "paid"
                   /\ new.reviewed_by = c.user
                   /\ new.price_paid_cents = old.amount_due_cents
                   /\ new.qr_code = QrPayload(c.ticket, old.event_id, old.user_id)
                   /\ SigValid(new.qr_code)
                   /\ old.payment_status = "paid" =>
                         /\ new.price_paid_cents = old.price_paid_cents
                         /\ old.qr_code # NoQr => new.qr_code = old.qr_code]_vars
    /\ [](\A t \in TicketIds :
            tickets[t].payment_status = "paid" =>
                tickets[t].price_paid_cents = tickets[t].amount_due_cents)

\* A priced ticket that was rejected and then approved, with a further
\* approval of it under way.
C17_Witness ==
    \E t \in TicketIds :
        /\ \E c \in inflight : c.op = "approve" /\ c.ticket = t
        /\ tickets[t].payment_status = "paid"
        /\ tickets[t].rejection_reason = "late"
        /\ tickets[t].amount_due_cents = 100 /\ tickets[t].price_paid_cents = 100
        /\ tickets[t].reviewed_by # NULL
        /\ tickets[t].qr_code = QrPayload(t, tickets[t].event_id, tickets[t].user_id)

\* The message of the register route's 409.
FullAnswer == "Event full. You may join waitlist."

\* C18 (as the code has it): the register route counts the tickets and
\* inserts the new one in one step, so a ticket is inserted only in a step
\* that starts below the capacity, one ticket at a time, and never takes the
\* count above a capacity that is set; once the last slot is taken the next
\* registration is answered 409 and inserts nothing.
C18_CheckAndInsertInOneStep ==
    /\ [][\A e \in 1..Len(events) :
            TicketCount(e)' > TicketCount(e) =>
                /\ ~(Truthy(events[e].capacity) /\ TicketCount(e) >= events[e].capacity)
                /\ TicketCount(e)' = TicketCount(e) + 1
                /\ Truthy(events[e].capacity) => TicketCount(e)' <= events[e].capacity]_vars
    /\ [](\A e \in 1..Len(events) :
            (Truthy(events[e].capacity) /\ TicketCount(e) >= events[e].capacity)
                => RegisterOutcome(e, "single") = FullAnswer)
    /\ [][\A e \in 1..Len(events) : RegisterRefused(3, e, "single") => tickets' = tickets]_vars

\* An event of capacity 2 holds its two tickets and the next registration
\* was answered 409.
C18_Witness ==
    /\ lastError = FullAnswer
    /\ \E e \in 1..Len(events) : events[e].capacity = 2 /\ TicketCount(e) = 2

\* C18 as stated: with one slot left, a registration that arrives together
\* with the one taking the slot still passes the capacity check after it.
C18_BothPassCheck ==
    [][\A e \in 1..Len(events) :
          (/\ Truthy(events[e].capacity)
           /\ TicketCount(e) = events[e].capacity - 1
           /\ TicketCount(e)' = TicketCount(e) + 1)
          => RegisterOutcome(e, "single")' = "created"]_vars

\* C19 (as the code has it): the scan route reads checked_in and writes the
\* flag and the 'qr' row in one step, so a 'qr' row is appended only in a
\* step that takes the ticket from not checked in to checked in, and a
\* ticket never has two of them, whoever scans.
C19_ReadAndWriteInOneStep ==
    /\ [][\A t \in TicketIds :
            Cardinality(QrRows(t))' > Cardinality(QrRows(t)) =>
                /\ ~tickets[t].checked_in /\ tickets'[t].checked_in
                /\ Cardinality(QrRows(t))' = 1]_vars
    /\ [][\A u \in Organizers, c \in GuardCodes :
            (ScanOutcome(c) = "already" /\ Scan(u, c)) => UNCHANGED <<tickets, attendance>>]_vars

\* A ticket of the admin's event, checked in with one 'qr' row, whose code
\* is now answered as already checked in to either organizer.
C19_Witness ==
    \E t \in TicketIds :
        /\ tickets[t].checked_in
        /\ Cardinality(QrRows(t)) = 1
        /\ events[tickets[t].event_id].created_by = 1
        /\ ScanOutcome(ScanCode("object", tickets[t].qr_code)) = "already"

\* C19 as stated: a scan that arrives together with the one checking the
\* ticket in still reads checked_in = false after it.
C19_BothReadUnchecked ==
    [][\A u \in Organizers, c \in GuardCodes :
          (ScanOutcome(c) = "ok" /\ Scan(u, c)) => ScanOutcome(c)' = "ok"]_vars

\* C20 as stated: a request to register, to submit a proof, to review, to
\* scan or to check in manually that fails is answered with an error of the
\* API, never with an exception thrown out of its handler.
C20_TypedErrorsOnly == lastError \notin Exceptions

\* The tiers that the event's allowed_tiers column names ('single' when the
\* column is empty).
ListedTiers(e) ==
    IF events[e].allowed_tiers = <<>> THEN {"single"}
    ELSE {events[e].allowed_tiers[i] : i \in 1..Len(events[e].allowed_tiers)} \cap TierNames

\* C21 as stated: every ticket has a group_type that the event's
\* allowed_tiers names, a request for any other tier is answered
\* tier-not-allowed, and the ticket stores 1, 2 or 3 participants for
\* single, duo, trio: the descriptors sent, cut or padded with empty ones,
\* the first taken from the profile when missing.
C21_OnlyAllowedTiers ==
    /\ \A t \in TicketIds :
          /\ tickets[t].group_type \in ListedTiers(tickets[t].event_id)
          /\ Len(tickets[t].participants) = NeedCount(tickets[t].group_type)
          /\ tickets[t].participants[1] # "null"
    /\ \A e \in 1..Len(events), ticket_type \in TiersAsked :
          (EventExists(e) /\ ~EventFull(e) /\ ticket_type \notin ListedTiers(e))
              => RegisterOutcome(e, ticket_type) = "Invalid or disallowed ticket type"

\* The price column of the event for a tier, and the tier's fallback.
TierPrice(ev, tier) ==
    IF tier = "trio" THEN ev.price_trio_cents
    ELSE IF tier = "duo" THEN ev.price_duo_cents ELSE ev.price_single_cents

TierFallback(tier) ==
    IF tier = "trio" THEN FallbackTrio ELSE IF tier = "duo" THEN FallbackDuo ELSE FallbackSingle

\* C22 (as the code has it): the base price of a single ticket is the
\* event's single price if set, else the event's flat price if set, else
\* 9000; the base price of a duo or trio ticket is the tier's price if set,
\* else 18000 or 25000, whatever the flat price.  The flat price stored by
\* event creation is never null (0 when absent).
C22_PriceResolution ==
    /\ \A e \in 1..Len(events) : events[e].price_cents # NULL
    /\ \A t \in TicketIds :
          LET ev == events[tickets[t].event_id]
              tier == tickets[t].group_type
          IN tickets[t].amount_due_cents =
                IF TierPrice(ev, tier) # NULL THEN TierPrice(ev, tier)
                ELSE IF tier = "single"
                     THEN (IF ev.price_cents # NULL THEN ev.price_cents ELSE FallbackSingle)
                     ELSE TierFallback(tier)

\* A single ticket of an event without single price costs the flat price,
\* next to which a duo ticket would cost the fallback.
C22_Witness ==
    \E t \in TicketIds :
        LET ev == events[tickets[t].event_id]
        IN /\ tickets[t].group_type = "single"
           /\ ev.price_single_cents = NULL /\ ev.price_cents = 100
           /\ tickets[t].amount_due_cents = 100
           /\ ev.price_duo_cents = NULL /\ BasePrice(ev, "duo") = FallbackDuo

\* C22 as stated: for each tier the tier's price if set, else the tier's
\* hardcoded fallback (the flat price after it).
C22_FallbackBeforeFlat ==
    \A t \in TicketIds :
        LET ev == events[tickets[t].event_id]
            tier == tickets[t].group_type
        IN tickets[t].amount_due_cents =
              IF TierPrice(ev, tier) # NULL THEN TierPrice(ev, tier) ELSE TierFallback(tier)

\* C23 as stated: a discount is created exactly when the event has no
\* discount with the same uppercased code, whatever the other events hold.
C23_UniquePerEvent ==
    \A u \in Organizers, e \in 1..Len(events) :
        EventExists(e) =>
            (DiscountOutcome(u, e, DiscountBody("save", 100, NULL)) = "ok"
                <=> ~\E d \in discounts : d.event_id = e /\ d.code = ToUpperCase("save"))

\* Tickets issued with the discount applied.
IssuedWith(d) ==
    {t \in TicketIds : tickets[t].event_id = d.event_id /\ tickets[t].discount_code = d.code}

\* C24 as stated: used_count of a discount is the number of tickets issued
\* with its code, and a discount with max_uses is applied to at most that
\* many tickets.
C24_UsageAccounting ==
    \A d \in discounts :
        /\ d.used_count = Cardinality(IssuedWith(d))
        /\ Truthy(d.max_uses) => Cardinality(IssuedWith(d)) <= d.max_uses

\* Entries of the KV server's attendance lists that name ticket t.
KvEntries(t) == {i \in 1..Len(attendance) : attendance[i].ticket_uuid = t}

\* C25 as stated: in the KV server the scans of a ticket's payload add at
\* most one attendance entry for the ticket, and a ticket that is checked in
\* is paid.
C25_KvScanOnce ==
    \A t \in TicketIds :
        /\ Cardinality(KvEntries(t)) <= 1
        /\ tickets[t].checked_in => tickets[t].payment_status = "paid"

\* C26 as stated: the register route of server.js inserts no ticket for an
\* event whose capacity is set and reached, so the remaining value of the
\* event is its capacity less its tickets.
C26_NoInsertWhenFull ==
    /\ [][\A e \in 1..Len(events) : TicketCount(e)' > TicketCount(e) => ~EventFull(e)]_vars
    /\ [](\A e \in 1..Len(events) :
            (EventExists(e) /\ Truthy(events[e].capacity))
                => SjsRemaining(e) = events[e].capacity - TicketCount(e))

\* C27 as stated: in every reachable state, each ticket whose payment_status
\* is paid carries a stored QR payload with a valid signature.
C27_PaidHasQr ==
    \A t \in 1..Len(tickets) :
        tickets[t].payment_status = "paid"
            => /\ tickets[t].qr_code # NoQr
               /\ SigValid(tickets[t].qr_code)

\* C28 as stated: in every reachable state, a ticket that is checked in has
\* payment_status paid.
C28_CheckedInIsPaid ==
    \A t \in 1..Len(tickets) :
        tickets[t].checked_in => tickets[t].payment_status = "paid"

\* Every row that carries an event_id or a user_id names a stored event and
\* a stored user.
ForeignKeysHold ==
    /\ \A t \in 1..Len(tickets) :
          EventExists(tickets[t].event_id) /\ tickets[t].user_id \in Users
    /\ \A d \in discounts : EventExists(d.event_id)
    /\ \A w \in waitlist : EventExists(w.event_id) /\ w.user_id \in Users
    /\ \A i \in 1..Len(attendance) :
          EventExists(attendance[i].event_id) /\ attendance[i].user_id \in Users

\* C29: every ticket (and every discount, waitlist and attendance row)
\* refers to an existing event and user in every reachable state, and a
\* step never removes an event that a row refers to, nor any row: the
\* DELETE of a referenced event throws and the tables stay as they were.
C29_ReferentialIntegrity ==
    /\ [](ForeignKeysHold)
    /\ [][/\ \A e \in 1..Len(events) :
                (EventExists(e) /\ EventReferenced(e)) => EventExists(e)'
          /\ (lastError # "SqliteError" /\ lastError' = "SqliteError")
                => UNCHANGED <<events, discounts, tickets, attendance, waitlist>>
          /\ Len(tickets') >= Len(tickets) /\ Len(attendance') >= Len(attendance)
          /\ discounts \subseteq discounts' /\ waitlist \subseteq waitlist']_vars

\* A DELETE has thrown for an event that is still stored, with a ticket and
\* a waitlist row that refer to it.
C29_Witness ==
    /\ lastError = "SqliteError"
    /\ \E e \in 1..Len(events) :
          /\ EventExists(e)
          /\ \E t \in 1..Len(tickets) : tickets[t].event_id = e
          /\ \E w \in waitlist : w.event_id = e

\* The columns of a ticket that are written at its insertion only; the uuid
\* of a ticket is its place in the table.
TicketFrame(tk) ==
    <<tk.user_id, tk.event_id, tk.group_type, tk.participants, tk.discount_code,
      tk.amount_due_cents>>

\* C30: no step of proof, approve, reject or scan (nor of register) changes
\* the uuid, user_id, event_id, group_type, participants, discount_code or
\* amount_due_cents of a ticket that exists, and a QR payload once stored is
\* kept as it is, signed for the ticket's own uuid, event and user, so it
\* stays valid through reject and re-approval.
C30_TicketFrame ==
    /\ [][/\ Len(tickets') >= Len(tickets)
          /\ \A t \in 1..Len(tickets) :
                /\ TicketFrame(tickets'[t]) = TicketFrame(tickets[t])
                /\ tickets[t].qr_code # NoQr => tickets'[t].qr_code = tickets[t].qr_code]_vars
    /\ [](\A t \in 1..Len(tickets) :
            tickets[t].qr_code # NoQr
                => /\ tickets[t].qr_code = QrPayload(t, tickets[t].event_id, tickets[t].user_id)
                   /\ SigValid(tickets[t].qr_code))

\* A priced ticket went through proof, approval, scan and rejection: it is
\* rejected and checked in with its payload still stored, and the approval
\* under way carries the same payload.
C30_Witness ==
    \E t \in 1..Len(tickets) :
        /\ tickets[t].payment_status = "rejected"
        /\ tickets[t].proof_txn_id = "txn-1"
        /\ tickets[t].checked_in
        /\ tickets[t].amount_due_cents = 100
        /\ tickets[t].qr_code # NoQr
        /\ \E c \in inflight :
              c.op = "approve" /\ c.ticket = t /\ c.qr = tickets[t].qr_code

====
